---- MODULE Spec2Model ----
(***************************************************************************)
(* Model of the Exa MCP server (src/server.py) and of its standalone       *)
(* connectivity check (src/test_connection.py).                            *)
(*                                                                         *)
(* Python values are tagged records [t, s, n]: t is the Python type, s the *)
(* payload of a str, n the payload of an int or of a float (a float is     *)
(* held in units of 10^-7).  A text response is a sequence of string       *)
(* fragments: the literals of the f-string and the str() of each           *)
(* interpolated value, in order.                                           *)
(***************************************************************************)
EXTENDS Integers, Sequences, FiniteSets, TLC

VARIABLES
    boot,         \* startup: the position of main() and the lines it has logged
    memo,         \* server: an earlier delivered call kept with its response, and what was delivered since
    credential,   \* EXA_API_KEY is set to a non-empty value in the process environment
    pc,           \* server: "idle" (awaiting a request) or "responded" (a result is ready for the transport)
    call,         \* server: the ToolCall being served (name, arguments, clock, collaborator reply)
    response,     \* server: what handle_call_tool/handle_list_tools handed to the transport
    collab,       \* server: the collaborator operations performed during the current call
    prevFault,    \* server: the previously delivered call ended in a collaborator fault
    tc,           \* connectivity check: environment, loop position and counters of run_all_tests
    sc            \* score rendering: the score under test and the lines rendered from it

vars == <<boot, memo, credential, pc, call, response, collab, prevFault, tc, sc>>

(***************************************************************************)
(* Bounds of the model.                                                    *)
(***************************************************************************)
MaxResults == 3     \* longest result list a collaborator reply carries
MaxPad == 1         \* most leading (and trailing) whitespace characters of a text body
MaxScoreStep == 24  \* numeric scores under test are multiples of ScoreStep up to this many steps

(***************************************************************************)
(* Python values.                                                          *)
(***************************************************************************)
PyNone == [t |-> "none", s |-> "", n |-> 0]
PyStr(x) == [t |-> "str", s |-> x, n |-> 0]
PyInt(k) == [t |-> "int", s |-> "", n |-> k]
PyFloat(k) == [t |-> "float", s |-> "", n |-> k]

Abs(k) == IF k < 0 THEN -k ELSE k

\* zero-padded decimal rendering of a natural number, at least w digits wide
RECURSIVE Pad(_, _)
Pad(k, w) == IF w <= 1 \/ k >= 10 ^ (w - 1) THEN ToString(k) ELSE "0" \o Pad(k, w - 1)

\* str(value) for the value types that reach an f-string in the server
Str(v) ==
    CASE v.t = "str" -> v.s
      [] v.t = "int" -> ToString(v.n)
      [] v.t = "none" -> "None"

\* bool(value): Python truthiness
Truthy(v) ==
    CASE v.t = "none" -> FALSE
      [] v.t = "str" -> v.s # ""
      [] v.t = "int" -> v.n # 0
      [] v.t = "float" -> v.n # 0

\* the strings float() accepts, with their value in units of 10^-7
NumericStrings == [s \in {"0.5", "12"} |-> IF s = "0.5" THEN 5000000 ELSE 120000000]

\* float(value): [ok, val]; ok = FALSE stands for ValueError/TypeError
ToFloat(v) ==
    CASE v.t = "float" -> [ok |-> TRUE, val |-> v.n]
      [] v.t = "int" -> [ok |-> TRUE, val |-> v.n * 10000000]
      [] v.t = "str" -> IF v.s \in DOMAIN NumericStrings
                        THEN [ok |-> TRUE, val |-> NumericStrings[v.s]]
                        ELSE [ok |-> FALSE, val |-> 0]
      [] OTHER -> [ok |-> FALSE, val |-> 0]

\* f"{x:.3f}" of a float held in units of 10^-7: round to the nearest thousandth
\* (an exact tie is rounded to even; the scores of the model avoid exact ties,
\* whose rendering depends on the binary representation of the float)
Fixed3(x) ==
    LET a == Abs(x)
        q == a \div 10000
        r == a % 10000
        m == IF r > 5000 \/ (r = 5000 /\ q % 2 = 1) THEN q + 1 ELSE q
    IN  (IF x < 0 THEN "-" ELSE "") \o ToString(m \div 1000) \o "." \o Pad(m % 1000, 3)

safe_format_score_NoFallback(score) ==
    IF score.t = "none" THEN "N/A"
    ELSE LET f == ToFloat(score) IN IF f.ok THEN Fixed3(f.val) ELSE "N/A"

\* server.py safe_format_score
safe_format_score(score) ==
    IF score.t = "none" THEN "N/A"
    ELSE LET f == ToFloat(score) IN IF f.ok THEN Fixed3(f.val) ELSE Str(score)

\* test_connection.py safe_format_score
tc_safe_format_score(score) ==
    IF score.t = "none" THEN "N/A"
    ELSE LET f == ToFloat(score) IN IF f.ok THEN Fixed3(f.val) ELSE Str(score)

\* server.py safe_get_attr, applied to the attribute's value (None when the attribute is missing)
safe_get_attr(value, default) == IF value.t # "none" THEN Str(value) ELSE default

\* test_connection.py safe_get_attr
tc_safe_get_attr(value, default) == IF value.t # "none" THEN Str(value) ELSE default

(***************************************************************************)
(* datetime: date arithmetic as the standard library does it, through the  *)
(* proleptic Gregorian ordinal.                                            *)
(***************************************************************************)
IsLeap(y) == y % 4 = 0 /\ (y % 100 # 0 \/ y % 400 = 0)

DaysInMonth(y, m) ==
    CASE m \in {1, 3, 5, 7, 8, 10, 12} -> 31
      [] m \in {4, 6, 9, 11} -> 30
      [] m = 2 -> IF IsLeap(y) THEN 29 ELSE 28

RECURSIVE DaysBeforeMonth(_, _)
DaysBeforeMonth(y, m) == IF m <= 1 THEN 0 ELSE DaysBeforeMonth(y, m - 1) + DaysInMonth(y, m - 1)

DaysBeforeYear(y) == (y - 1) * 365 + (y - 1) \div 4 - (y - 1) \div 100 + (y - 1) \div 400

\* date.toordinal()
ToOrdinal(dt) == DaysBeforeYear(dt.year) + DaysBeforeMonth(dt.year, dt.month) + dt.day

\* date.fromordinal(n)
FromOrdinal(n0) ==
    LET n == n0 - 1
        n400 == n \div 146097
        r400 == n % 146097
        n100 == r400 \div 36524
        r100 == r400 % 36524
        n4 == r100 \div 1461
        r4 == r100 % 1461
        n1 == r4 \div 365
        r1 == r4 % 365
        y == n400 * 400 + 1 + n100 * 100 + n4 * 4 + n1
    IN  IF n1 = 4 \/ n100 = 4 THEN [year |-> y - 1, month |-> 12, day |-> 31]
        ELSE LET mo == CHOOSE k \in 1..12 :
                           /\ DaysBeforeMonth(y, k) <= r1
                           /\ r1 < DaysBeforeMonth(y, k) + DaysInMonth(y, k)
             IN  [year |-> y, month |-> mo, day |-> r1 - DaysBeforeMonth(y, mo) + 1]

\* datetime - timedelta(days=k): the date moves by whole days, the time of day is kept
MinusDays(dt, k) ==
    LET d == FromOrdinal(ToOrdinal(dt) - k)
    IN  [year |-> d.year, month |-> d.month, day |-> d.day, second |-> dt.second]

\* strftime("%Y-%m-%d"): the time of day is dropped
StrfDate(dt) == Pad(dt.year, 4) \o "-" \o Pad(dt.month, 2) \o "-" \o Pad(dt.day, 2)

(***************************************************************************)
(* Tool catalog: handle_list_tools.                                        *)
(***************************************************************************)
NoDefaults == [k \in {} |-> 0]

Tool(name, properties, required, defaults, minimum, maximum) ==
    [name |-> name, properties |-> properties, required |-> required,
     defaults |-> defaults, minimum |-> minimum, maximum |-> maximum]

\* the five descriptors, in the order handle_list_tools returns them
Catalog ==
    << Tool("search_web_semantic", {"query", "num_results"}, {"query"},
            [k \in {"num_results"} |-> 5],
            [k \in {"num_results"} |-> 1], [k \in {"num_results"} |-> 20]),
       Tool("extract_page_content", {"url"}, {"url"}, NoDefaults, NoDefaults, NoDefaults),
       Tool("find_similar_pages", {"url", "num_results"}, {"url"},
            [k \in {"num_results"} |-> 5],
            [k \in {"num_results"} |-> 1], [k \in {"num_results"} |-> 20]),
       Tool("search_recent_content", {"query", "days_back", "num_results"}, {"query"},
            [k \in {"days_back", "num_results"} |-> IF k = "days_back" THEN 7 ELSE 5],
            [k \in {"days_back", "num_results"} |-> 1],
            [k \in {"days_back", "num_results"} |-> IF k = "days_back" THEN 365 ELSE 20]),
       Tool("search_by_example_text", {"text", "num_results"}, {"text"},
            [k \in {"num_results"} |-> 5],
            [k \in {"num_results"} |-> 1], [k \in {"num_results"} |-> 20]) >>

CatalogNames == {Catalog[i].name : i \in DOMAIN Catalog}

Descriptor(name) == Catalog[CHOOSE i \in DOMAIN Catalog : Catalog[i].name = name]

(***************************************************************************)
(* ToolCall arguments: a mapping over the five keys the tools read; a key  *)
(* the caller left out holds Missing.                                      *)
(***************************************************************************)
Missing == [t |-> "missing", s |-> "", n |-> 0]

Keys == {"query", "url", "text", "num_results", "days_back"}

NoArgs == [k \in Keys |-> Missing]

\* arguments[key]: [ok, val]; ok = FALSE stands for KeyError(key)
Subscript(arguments, key) ==
    IF arguments[key].t = "missing" THEN [ok |-> FALSE, val |-> PyNone]
    ELSE [ok |-> TRUE, val |-> arguments[key]]

\* arguments.get(key, default)
Get(arguments, key, default) ==
    IF arguments[key].t = "missing" THEN default ELSE arguments[key]

(***************************************************************************)
(* Outcome of a function: a returned text, or a raised exception.          *)
(***************************************************************************)
Ret(text) == [raised |-> FALSE, exc |-> "", msg |-> "", text |-> text]
Raise(exc, msg) == [raised |-> TRUE, exc |-> exc, msg |-> msg, text |-> <<>>]

\* a handler's outcome together with the collaborator operations it performed
Did(out, ops) == [out |-> out, ops |-> ops]

\* the collaborator operation exa.search / exa.get_contents / exa.find_similar
Op(op, subject, num_results, start_published_date, use_autoprompt, type) ==
    [op |-> op, subject |-> subject, num_results |-> num_results,
     start_published_date |-> start_published_date,
     use_autoprompt |-> use_autoprompt, type |-> type]

\* the collaborator's reply to an operation: a response object holding a
\* result list ("ok"), one whose results attribute is None ("null"), an
\* object without a results attribute ("malformed"), or a raised exception
NoReply == [kind |-> "none", results |-> <<>>, msg |-> ""]

\* reading results.results: [ok, results, msg]
\* ok = FALSE is an exception raised inside the handler's try block
ReadResults(reply) ==
    CASE reply.kind = "ok" -> [ok |-> TRUE, results |-> reply.results, msg |-> ""]
      [] reply.kind = "null" -> [ok |-> TRUE, results |-> <<>>, msg |-> ""]
      [] reply.kind = "malformed" ->
            [ok |-> FALSE, results |-> <<>>, msg |-> "'dict' object has no attribute 'results'"]
      [] reply.kind = "raise" -> [ok |-> FALSE, results |-> <<>>, msg |-> reply.msg]

(***************************************************************************)
(* The numbered entries of a result list (the for loop of the four list    *)
(* handlers).  The emoji that open the URL, score and date lines are left  *)
(* out of the literals.                                                    *)
(***************************************************************************)
FormatEntry(i, result, scoreLabel) ==
    << "**", ToString(i), ". ", safe_get_attr(result.title, "No title"), "**\n",
       "URL: ", safe_get_attr(result.url, "No URL"), "\n",
       scoreLabel, safe_format_score(result.score), "\n" >>
    \o (IF Truthy(result.published_date)
        THEN << "Published: ", Str(result.published_date), "\n" >> ELSE << >>)
    \o << "\n" >>

RECURSIVE FormatFrom(_, _, _)
FormatFrom(results, i, scoreLabel) ==
    IF i > Len(results) THEN << >>
    ELSE FormatEntry(i, results[i], scoreLabel) \o FormatFrom(results, i + 1, scoreLabel)

FormatEntries_Reversed(results, scoreLabel) ==
    FormatFrom([i \in 1..Len(results) |-> results[Len(results) + 1 - i]], 1, scoreLabel)

\* for i, result in enumerate(results.results, 1): ...
FormatEntries(results, scoreLabel) == FormatFrom(results, 1, scoreLabel)

(***************************************************************************)
(* The five tool handlers.  Each takes the call's arguments and the reply  *)
(* the collaborator gives if it is asked, and yields the handler's outcome *)
(* and the collaborator operations performed.                              *)
(***************************************************************************)
Failed_Reraise(prefix, msg, suffix) == Raise("Exception", msg)

\* a handler's own except clause:
\* except Exception as e: return [TextContent(text=f"<prefix>{str(e)}<suffix>")]
Failed(prefix, msg, suffix) == Ret(prefix \o << msg, suffix >>)

\* the default of arguments.get("num_results", 5), in each handler that reads num_results
DefaultNumResults == PyInt(5)

\* _search_web_semantic repeating a search that failed
_search_web_semantic_Retry(arguments, reply) ==
    LET query == Subscript(arguments, "query")
        num_results == Get(arguments, "num_results", DefaultNumResults)
        op == Op("search", query.val, num_results, "", "True", "")
        got == ReadResults(reply)
    IN  IF ~query.ok THEN Did(Raise("KeyError", "'query'"), << >>)
        ELSE IF ~got.ok
        THEN Did(Failed(<< "Web search failed: " >>, got.msg,
                        ". Please check your query and try again."), << op, op >>)
        ELSE IF Len(got.results) = 0
        THEN Did(Ret(<< "No results found for query: '", Str(query.val),
                        "'. Try a different search term or broader query." >>), << op >>)
        ELSE Did(Ret(<< "**Semantic Search Results for: '", Str(query.val), "'**\n\n",
                        "Found ", ToString(Len(got.results)), " relevant results:\n\n" >>
                     \o FormatEntries(got.results, "Relevance Score: ")), << op >>)

_search_web_semantic(arguments, reply) ==
    LET query == Subscript(arguments, "query")
        num_results == Get(arguments, "num_results", DefaultNumResults)
        op == Op("search", query.val, num_results, "", "True", "")
        got == ReadResults(reply)
    IN  IF ~query.ok THEN Did(Raise("KeyError", "'query'"), << >>)
        ELSE IF ~got.ok
        THEN Did(Failed(<< "Web search failed: " >>, got.msg,
                        ". Please check your query and try again."), << op >>)
        ELSE IF Len(got.results) = 0
        THEN Did(Ret(<< "No results found for query: '", Str(query.val),
                        "'. Try a different search term or broader query." >>), << op >>)
        ELSE Did(Ret(<< "**Semantic Search Results for: '", Str(query.val), "'**\n\n",
                        "Found ", ToString(Len(got.results)), " relevant results:\n\n" >>
                     \o FormatEntries(got.results, "Relevance Score: ")), << op >>)

\* text.strip(): leading and trailing whitespace removed
Whitespace == {" ", "\n", "\t"}

RECURSIVE LStrip(_)
LStrip(text) ==
    IF Len(text) > 0 /\ SubSeq(text, 1, 1) \in Whitespace
    THEN LStrip(SubSeq(text, 2, Len(text))) ELSE text

RECURSIVE RStrip(_)
RStrip(text) ==
    IF Len(text) > 0 /\ SubSeq(text, Len(text), Len(text)) \in Whitespace
    THEN RStrip(SubSeq(text, 1, Len(text) - 1)) ELSE text

Strip(text) == RStrip(LStrip(text))

TruncLimit == 3000

RenderContent_AtLimit(text_content) ==
    LET text == Strip(text_content)
    IN  IF Len(text) >= TruncLimit
        THEN << "**Content (first 3000 characters):**\n", SubSeq(text, 1, TruncLimit), "...\n\n",
                "*[Content truncated - total length: ", ToString(Len(text)), " characters]*" >>
        ELSE << "**Content:**\n", text >>

\* the body section of _extract_page_content for a non-empty text body
RenderContent(text_content) ==
    LET text == Strip(text_content)
    IN  IF Len(text) > TruncLimit
        THEN << "**Content (first 3000 characters):**\n", SubSeq(text, 1, TruncLimit), "...\n\n",
                "*[Content truncated - total length: ", ToString(Len(text)), " characters]*" >>
        ELSE << "**Content:**\n", text >>

_extract_page_content(arguments, reply) ==
    LET url == Subscript(arguments, "url")
        op == Op("get_contents", url.val, PyNone, "", "", "")
        got == ReadResults(reply)
        content == got.results[1]
        title == safe_get_attr(content.title, "No title available")
    IN  IF ~url.ok THEN Did(Raise("KeyError", "'url'"), << >>)
        ELSE IF ~got.ok
        THEN Did(Failed(<< "Content extraction failed for ", Str(url.val), ": " >>, got.msg,
                        ". The page might be blocked or require special access."), << op >>)
        ELSE IF Len(got.results) = 0
        THEN Did(Ret(<< "Could not extract content from URL: ", Str(url.val),
                        ". The page might be inaccessible or require authentication." >>), << op >>)
        ELSE Did(Ret(<< "**Content Extracted from: ", safe_get_attr(content.url, Str(url.val)), "**\n\n" >>
                     \o (IF title # "No title available"
                         THEN << "**Title:** ", title, "\n\n" >> ELSE << >>)
                     \o (IF Truthy(content.text)
                         THEN RenderContent(content.text.s)
                         ELSE << "**Content:** Unable to extract readable text from this page." >>)),
                 << op >>)

_find_similar_pages_EmptyAsError(arguments, reply) ==
    LET url == Subscript(arguments, "url")
        num_results == Get(arguments, "num_results", DefaultNumResults)
        op == Op("find_similar", url.val, num_results, "", "", "")
        got == ReadResults(reply)
    IN  IF ~url.ok THEN Did(Raise("KeyError", "'url'"), << >>)
        ELSE IF ~got.ok \/ Len(got.results) = 0
        THEN Did(Failed(<< "Similar pages search failed for ", Str(url.val), ": " >>, got.msg,
                        ". Please verify the URL is valid and accessible."), << op >>)
        ELSE Did(Ret(<< "**Pages Similar to: ", Str(url.val), "**\n\n",
                        "Found ", ToString(Len(got.results)), " similar pages:\n\n" >>
                     \o FormatEntries(got.results, "Similarity Score: ")), << op >>)

_find_similar_pages(arguments, reply) ==
    LET url == Subscript(arguments, "url")
        num_results == Get(arguments, "num_results", DefaultNumResults)
        op == Op("find_similar", url.val, num_results, "", "", "")
        got == ReadResults(reply)
    IN  IF ~url.ok THEN Did(Raise("KeyError", "'url'"), << >>)
        ELSE IF ~got.ok
        THEN Did(Failed(<< "Similar pages search failed for ", Str(url.val), ": " >>, got.msg,
                        ". Please verify the URL is valid and accessible."), << op >>)
        ELSE IF Len(got.results) = 0
        THEN Did(Ret(<< "No similar pages found for: ", Str(url.val),
                        ". Try a different URL or check if the URL is accessible." >>), << op >>)
        ELSE Did(Ret(<< "**Pages Similar to: ", Str(url.val), "**\n\n",
                        "Found ", ToString(Len(got.results)), " similar pages:\n\n" >>
                     \o FormatEntries(got.results, "Similarity Score: ")), << op >>)

\* start_date = datetime.now() - timedelta(days=days_back); start_date.strftime("%Y-%m-%d")
StartDate(now, days_back) == StrfDate(MinusDays(now, days_back))

DefaultDaysBack_Month == PyInt(30)

\* the default of arguments.get("days_back", 7)
DefaultDaysBack == PyInt(7)

_search_recent_content(arguments, reply, now) ==
    LET query == Subscript(arguments, "query")
        days_back == Get(arguments, "days_back", DefaultDaysBack)
        num_results == Get(arguments, "num_results", DefaultNumResults)
        op == Op("search", query.val, num_results, StartDate(now, days_back.n), "True", "")
        got == ReadResults(reply)
    IN  IF ~query.ok THEN Did(Raise("KeyError", "'query'"), << >>)
        ELSE IF days_back.t # "int"
        THEN Did(Failed(<< "Recent content search failed: " >>,
                        "unsupported type for timedelta days component: " \o days_back.t,
                        ". Please try a different query."), << >>)
        ELSE IF ~got.ok
        THEN Did(Failed(<< "Recent content search failed: " >>, got.msg,
                        ". Please try a different query."), << op >>)
        ELSE IF Len(got.results) = 0
        THEN Did(Ret(<< "No recent content found for '", Str(query.val), "' in the last ",
                        Str(days_back), " days. Try a broader query or increase the time range." >>),
                 << op >>)
        ELSE Did(Ret(<< "**Recent Content for: '", Str(query.val), "'** (Last ",
                        Str(days_back), " days)\n\n",
                        "Found ", ToString(Len(got.results)), " recent results:\n\n" >>
                     \o FormatEntries(got.results, "Relevance Score: ")), << op >>)

\* text[:200] + "..." if len(text) > 200 else text
PreviewLimit == 200

ExamplePreview(text) ==
    IF Len(text) > PreviewLimit THEN SubSeq(text, 1, PreviewLimit) \o "..." ELSE text

_search_by_example_text(arguments, reply) ==
    LET text == Subscript(arguments, "text")
        num_results == Get(arguments, "num_results", DefaultNumResults)
        op == Op("search", text.val, num_results, "", "False", "neural")
        got == ReadResults(reply)
    IN  IF ~text.ok THEN Did(Raise("KeyError", "'text'"), << >>)
        ELSE IF text.val.t # "str"
        THEN Did(Raise("TypeError", "object of type '" \o text.val.t \o "' has no len()"), << >>)
        ELSE IF ~got.ok
        THEN Did(Failed(<< "Example text search failed: " >>, got.msg,
                        ". Please try a different text sample."), << op >>)
        ELSE IF Len(got.results) = 0
        THEN Did(Ret(<< "No similar content found for the provided text sample. Try a longer or more specific text example." >>),
                 << op >>)
        ELSE Did(Ret(<< "**Content Similar to Example Text:**\n\n",
                        "**Example:** ", ExamplePreview(text.val.s), "\n\n",
                        "Found ", ToString(Len(got.results)), " similar results:\n\n" >>
                     \o FormatEntries(got.results, "Similarity Score: ")), << op >>)

(***************************************************************************)
(* The dispatcher: get_exa_client and handle_call_tool.                    *)
(***************************************************************************)
\* get_exa_client: the client, or ValueError when EXA_API_KEY is unset or empty
get_exa_client(api_key_set) ==
    IF ~api_key_set
    THEN Raise("ValueError",
               "EXA_API_KEY environment variable is required. Get your key from https://exa.ai/")
    ELSE Ret(<< "Exa" >>)

\* the exception classes of the model; each is a subclass of Exception
ValueErrors == {"ValueError"}
Exceptions == {"ValueError", "KeyError", "TypeError", "AttributeError", "Exception"}

\* handle_call_tool with one except clause reporting every exception as a configuration error
Catch_AllAsConfig(name, out) ==
    IF ~out.raised THEN out
    ELSE IF out.exc \in Exceptions THEN Ret(<< "Configuration Error: ", out.msg >>)
    ELSE out

Catch_OnlyValueError(name, out) ==
    IF ~out.raised THEN out
    ELSE IF out.exc \in ValueErrors THEN Ret(<< "Configuration Error: ", out.msg >>)
    ELSE out

\* the except clauses of handle_call_tool, applied to what its try block did
Catch(name, out) ==
    IF ~out.raised THEN out
    ELSE IF out.exc \in ValueErrors THEN Ret(<< "Configuration Error: ", out.msg >>)
    ELSE IF out.exc \in Exceptions THEN Ret(<< "Error in ", name, ": ", out.msg >>)
    ELSE out

Route_UnknownRaises(name, arguments, reply, now, api_key_set) ==
    LET exa == get_exa_client(api_key_set)
    IN  IF exa.raised THEN Did(exa, << >>)
        ELSE CASE name = "search_web_semantic" -> _search_web_semantic(arguments, reply)
               [] name = "extract_page_content" -> _extract_page_content(arguments, reply)
               [] name = "find_similar_pages" -> _find_similar_pages(arguments, reply)
               [] name = "search_recent_content" -> _search_recent_content(arguments, reply, now)
               [] name = "search_by_example_text" -> _search_by_example_text(arguments, reply)
               [] OTHER -> Did(Raise("ValueError", "Unknown tool: " \o name), << >>)

Route_NoClientCheck(name, arguments, reply, now, api_key_set) ==
    CASE name = "search_web_semantic" -> _search_web_semantic(arguments, reply)
      [] name = "extract_page_content" -> _extract_page_content(arguments, reply)
      [] name = "find_similar_pages" -> _find_similar_pages(arguments, reply)
      [] name = "search_recent_content" -> _search_recent_content(arguments, reply, now)
      [] name = "search_by_example_text" -> _search_by_example_text(arguments, reply)
      [] OTHER -> Did(Ret(<< "Unknown tool: ", name >>), << >>)

\* handle_call_tool with the last branch of its chain calling the first handler
Route_SharedHandler(name, arguments, reply, now, api_key_set) ==
    LET exa == get_exa_client(api_key_set)
    IN  IF exa.raised THEN Did(exa, << >>)
        ELSE CASE name = "search_web_semantic" -> _search_web_semantic(arguments, reply)
               [] name = "extract_page_content" -> _extract_page_content(arguments, reply)
               [] name = "find_similar_pages" -> _find_similar_pages(arguments, reply)
               [] name = "search_recent_content" -> _search_recent_content(arguments, reply, now)
               [] name = "search_by_example_text" ->
                      _search_web_semantic([arguments EXCEPT !["query"] = arguments["text"]], reply)
               [] OTHER -> Did(Ret(<< "Unknown tool: ", name >>), << >>)

\* the try block of handle_call_tool: resolve the client, then route on the name
Route(name, arguments, reply, now, api_key_set) ==
    LET exa == get_exa_client(api_key_set)
    IN  IF exa.raised THEN Did(exa, << >>)
        ELSE CASE name = "search_web_semantic" -> _search_web_semantic(arguments, reply)
               [] name = "extract_page_content" -> _extract_page_content(arguments, reply)
               [] name = "find_similar_pages" -> _find_similar_pages(arguments, reply)
               [] name = "search_recent_content" -> _search_recent_content(arguments, reply, now)
               [] name = "search_by_example_text" -> _search_by_example_text(arguments, reply)
               [] OTHER -> Did(Ret(<< "Unknown tool: ", name >>), << >>)

\* handle_call_tool answering from a failure left behind by the previous call
CallTool_AfterFault(name, arguments, reply, now, api_key_set) ==
    LET did == Route(name, arguments, reply, now, api_key_set)
    IN  IF prevFault
        THEN Did(Ret(<< "Error in ", name, ": ", "client unavailable" >>), did.ops)
        ELSE Did(Catch(name, did.out), did.ops)

\* handle_call_tool(name, arguments): outcome and collaborator operations
CallTool(name, arguments, reply, now, api_key_set) ==
    LET did == Route(name, arguments, reply, now, api_key_set)
    IN  Did(Catch(name, did.out), did.ops)

(***************************************************************************)
(* The inputs of the server: tool names, arguments, clock readings and     *)
(* collaborator replies.                                                   *)
(***************************************************************************)
UnknownNames == {"delete_index", ""}

Names == CatalogNames \cup UnknownNames

RECURSIVE Rep(_, _)
Rep(ch, n) ==
    IF n <= 0 THEN ""
    ELSE LET h == Rep(ch, n \div 2) IN h \o h \o (IF n % 2 = 1 THEN ch ELSE "")

\* an example text longer than the preview limit
LongText == "Q" \o Rep("w", PreviewLimit) \o "E"

\* values a caller may give for the key a tool requires: a string, nothing, a wrongly typed value
RequiredValues(key) ==
    CASE key = "query" -> {PyStr("solid state batteries"), Missing, PyInt(42)}
      [] key = "url" -> {PyStr("https://example.com/page"), Missing, PyNone}
      [] key = "text" -> {PyStr("Transformers use attention."), PyStr(LongText), Missing, PyInt(42)}

NumResultsValues == {Missing, PyInt(3), PyStr("many")}

DaysBackValues == {Missing, PyInt(1), PyInt(30), PyInt(365), PyStr("week")}

With(arguments, key, val) == [arguments EXCEPT ![key] = val]

\* the argument mappings tried for a tool: every combination of the values of the keys it reads
ArgsFor(name) ==
    IF name \notin CatalogNames
    THEN {NoArgs, With(NoArgs, "query", PyStr("solid state batteries"))}
    ELSE LET d == Descriptor(name)
             req == CHOOSE k \in d.required : TRUE
         IN  { With(With(With(NoArgs, req, r), "num_results", n), "days_back", b) :
                   r \in RequiredValues(req),
                   n \in (IF "num_results" \in d.properties THEN NumResultsValues ELSE {Missing}),
                   b \in (IF "days_back" \in d.properties THEN DaysBackValues ELSE {Missing}) }

\* readings of datetime.now(): a plain day, the day after a leap day, the start of a year
NoClock == [year |-> 0, month |-> 0, day |-> 0, second |-> 0]

Nows ==
    { [year |-> 2026, month |-> 11, day |-> 4, second |-> 86399],
      [year |-> 2024, month |-> 3, day |-> 1, second |-> 0],
      [year |-> 2025, month |-> 1, day |-> 3, second |-> 43200] }

ClockFor(name) == IF name = "search_recent_content" THEN Nows ELSE {NoClock}

Item(title, url, score, published_date, text) ==
    [title |-> title, url |-> url, score |-> score, published_date |-> published_date, text |-> text]

\* result records with every field present, with every field absent, and with
\* a non-numeric score and an empty date
Items ==
    { Item(PyStr("Alpha"), PyStr("https://a.example"), PyFloat(8234567), PyStr("2024-05-01"), PyNone),
      Item(PyNone, PyNone, PyNone, PyNone, PyNone),
      Item(PyStr("Beta"), PyStr("https://b.example"), PyStr("high"), PyStr(""), PyNone) }

ResultLists == UNION { [1..n -> Items] : n \in 0..MaxResults }

\* a text body: lead whitespace characters, n other characters, trail whitespace characters
Core(n) == IF n <= 1 THEN Rep("A", n) ELSE "A" \o Rep("x", n - 2) \o "Z"

Body(lead, n, trail) == Rep(" ", lead) \o Core(n) \o Rep("\n", trail)

CoreLens == {1, TruncLimit - 1, TruncLimit, TruncLimit + 1}

Bodies ==
    {PyNone, PyStr(""), PyStr(" \n")}
    \cup { PyStr(Body(lead, n, trail)) : lead \in 0..MaxPad, n \in CoreLens, trail \in 0..MaxPad }

ContentItems ==
    { Item(PyStr("Example Domain"), PyStr("https://example.com/"), PyNone, PyNone, b) : b \in Bodies }
    \cup { Item(PyNone, PyNone, PyNone, PyNone, b) : b \in Bodies }

ContentLists ==
    {<< >>} \cup { << c >> : c \in ContentItems }
    \cup { << c, Item(PyStr("Other"), PyNone, PyNone, PyNone, PyStr("other body")) >> :
             c \in { d \in ContentItems : d.text = PyStr(Body(0, 1, 0)) } }

ErrMsgs == {"401 Unauthorized", "Connection timed out"}

Reply(kind, results, msg) == [kind |-> kind, results |-> results, msg |-> msg]

Faults == {Reply("raise", << >>, m) : m \in ErrMsgs}
             \cup {Reply("malformed", << >>, ""), Reply("null", << >>, "")}

\* what the collaborator may answer to an operation
RepliesTo(op) ==
    IF op.op = "get_contents"
    THEN {Reply("ok", r, "") : r \in ContentLists} \cup Faults
    ELSE {Reply("ok", r, "") : r \in ResultLists} \cup Faults

\* the collaborator operations a call performs; they are issued before any
\* reply is read, so any reply shows them
Asked(name, arguments, now, api_key_set) ==
    CallTool(name, arguments, Reply("null", << >>, ""), now, api_key_set).ops

(***************************************************************************)
(* The server as a state machine: the transport hands one request at a     *)
(* time to a handler and sends what the handler returns.                   *)
(***************************************************************************)
NoCall == [name |-> "", arguments |-> NoArgs, now |-> NoClock, reply |-> NoReply]

Response(kind, out, tools) ==
    [kind |-> kind, raised |-> out.raised, exc |-> out.exc, msg |-> out.msg,
     text |-> out.text, tools |-> tools]

NoResponse == Response("none", Ret(<< >>), << >>)

\* main() is not running: the handlers are called on the imported module
BootOff == [phase |-> "off", log |-> << >>]

\* no earlier call is kept
NoMemo ==
    [set |-> FALSE, call |-> NoCall, response |-> NoResponse, collab |-> << >>, between |-> "none"]

TcIdle == [phase |-> "off"]
ScIdle == [phase |-> "off"]

InitServer ==
    /\ credential \in BOOLEAN
    /\ pc = "idle"
    /\ call = NoCall
    /\ response = NoResponse
    /\ collab = << >>
    /\ prevFault = FALSE
    /\ boot = BootOff
    /\ memo = NoMemo
    /\ tc = TcIdle
    /\ sc = ScIdle

\* the arguments of the sample: the required key alone, in each of its values
SampleArgs(name) ==
    { a \in ArgsFor(name) : a["num_results"].t = "missing" /\ a["days_back"].t = "missing" }

\* the replies of the sample: no result, one result, an exception
SampleReplies(op) ==
    { r \in RepliesTo(op) :
        \/ r.kind = "raise" /\ r.msg = "401 Unauthorized"
        \/ r.kind = "ok" /\ r.results = << >>
        \/ /\ r.kind = "ok"
           /\ Len(r.results) = 1
           /\ r.results[1].title # PyNone
           /\ r.results[1].score.t # "str"
           /\ r.results[1].text \in {PyNone, PyStr(Body(0, 1, 0))} }

\* the transport invokes handle_call_tool(name, arguments); the collaborator
\* answers the operation the handler performs, if it performs one.  The
\* inputs are all those of the model, or the sample of them.
ServeCall(sample) ==
    /\ pc = "idle"
    /\ \E name \in Names :
         \E arguments \in (IF sample THEN SampleArgs(name) ELSE ArgsFor(name)),
            now \in ClockFor(name) :
           LET asked == Asked(name, arguments, now, credential)
               replies == IF asked = << >> THEN {NoReply}
                          ELSE IF sample THEN SampleReplies(asked[1])
                          ELSE RepliesTo(asked[1])
           IN  \E reply \in replies :
                 LET did == CallTool(name, arguments, reply, now, credential)
                 IN  /\ call' = [name |-> name, arguments |-> arguments, now |-> now, reply |-> reply]
                     /\ response' = Response("text", did.out, << >>)
                     /\ collab' = did.ops
    /\ pc' = "responded"
    /\ UNCHANGED <<boot, memo, credential, prevFault, tc, sc>>

handle_call_tool == ServeCall(FALSE)

\* the transport invokes handle_list_tools()
handle_list_tools ==
    /\ pc = "idle"
    /\ call' = NoCall
    /\ response' = Response("tools", Ret(<< >>), Catalog)
    /\ collab' = << >>
    /\ pc' = "responded"
    /\ UNCHANGED <<boot, memo, credential, prevFault, tc, sc>>

\* what kind of result is being sent
DeliveredKind ==
    CASE response.kind = "tools" -> "list"
      [] response.text # << >> /\ response.text[1] = "Unknown tool: " -> "unknown"
      [] call.reply.kind \in {"raise", "malformed"} -> "failed"
      [] response.text # << >> /\ response.text[1] \in {"Configuration Error: ", "Error in "} -> "failed"
      [] OTHER -> "ok"

\* the transport sends the result; the ToolCall and the ToolResponse are discarded
SendResponse ==
    /\ pc = "responded"
    /\ pc' = "idle"
    /\ prevFault' = (call.reply.kind = "raise")
    /\ memo' = IF memo.set THEN [memo EXCEPT !.between = DeliveredKind] ELSE memo
    /\ call' = NoCall
    /\ response' = NoResponse
    /\ collab' = << >>
    /\ UNCHANGED <<boot, credential, tc, sc>>

Next == handle_call_tool \/ handle_list_tools \/ SendResponse

Spec == InitServer /\ [][Next]_vars

(***************************************************************************)
(* Properties of the server.                                               *)
(***************************************************************************)
Contains(text, fragment) == \E i \in DOMAIN text : text[i] = fragment

\* handle_call_tool has returned (or raised) for the call held in `call`
Answered == pc = "responded" /\ response.kind = "text"

\* the value the caller gave for the key the tool requires
Subject(name, arguments) == arguments[CHOOSE k \in Descriptor(name).required : TRUE]

\* positions at which a numbered entry "**<i>. <title>**" starts
EntryStarts(text) ==
    { p \in 1..(Len(text) - 2) : text[p] = "**" /\ text[p + 2] = ". " }

ListTools == CatalogNames \ {"extract_page_content"}

RemediationText == "EXA_API_KEY environment variable is required. Get your key from https://exa.ai/"

\* C1: every callTool invocation returns a well-formed text response (a
\* non-empty text, every fragment a string) and never raises to the
\* transport, whatever the name, the arguments, the credential and the
\* collaborator's behaviour.
C1_AlwaysAResponse ==
    Answered =>
        /\ ~response.raised
        /\ Len(response.text) >= 1
        /\ \A i \in DOMAIN response.text : response.text[i] \in STRING

\* C1 witness: a call that lacks its required key has been given a response.
C1_Witness ==
    /\ Answered /\ credential /\ ~response.raised
    /\ call.name = "find_similar_pages"
    /\ call.arguments["url"] = Missing
    /\ response.text = << "Error in ", "find_similar_pages", ": ", "'url'" >>

\* C2 as stated: for every name outside the catalog the response names the
\* tool as unknown.
C2_UnknownAlwaysNamed ==
    (Answered /\ call.name \notin CatalogNames) =>
        /\ ~response.raised
        /\ response.text = << "Unknown tool: ", call.name >>

\* C2 amended: with the credential present, a name outside the catalog gets
\* the response "Unknown tool: <name>", a tag no call of a catalog tool
\* receives; with the credential absent it gets the configuration error.
C2_UnknownNamedWithCredential ==
    Answered =>
        /\ (call.name \notin CatalogNames /\ credential) =>
               (~response.raised /\ response.text = << "Unknown tool: ", call.name >>)
        /\ (call.name \notin CatalogNames /\ ~credential) =>
               (~response.raised /\ response.text[1] = "Configuration Error: ")
        /\ (~response.raised /\ response.text[1] = "Unknown tool: ") =>
               (call.name \notin CatalogNames /\ credential)

C2_Witness ==
    /\ Answered /\ credential
    /\ call.name = "delete_index"
    /\ response.text = << "Unknown tool: ", "delete_index" >>

\* C3: with the credential missing, every callTool returns the configuration
\* error with its remediation text and performs no collaborator operation.
C3_NoCredentialNoNetwork ==
    (Answered /\ ~credential) =>
        /\ ~response.raised
        /\ response.text = << "Configuration Error: ", RemediationText >>
        /\ collab = << >>

C3_Witness ==
    /\ Answered /\ ~credential
    /\ call.name = "search_recent_content"
    /\ call.arguments["query"].t = "str"
    /\ response.text[1] = "Configuration Error: "
    /\ collab = << >>

\* the collaborator raised while serving the call held in `call`
CollaboratorRaised == Answered /\ call.reply.kind = "raise"

\* C4 as stated: a collaborator fault becomes a response containing the
\* tool name and the explanation of the fault.
C4_FaultNamesTool ==
    CollaboratorRaised =>
        /\ ~response.raised
        /\ Contains(response.text, call.name)
        /\ Contains(response.text, call.reply.msg)

\* the operation label with which each handler opens its failure message
FailureLabel(name) ==
    CASE name = "search_web_semantic" -> "Web search failed: "
      [] name = "extract_page_content" -> "Content extraction failed for "
      [] name = "find_similar_pages" -> "Similar pages search failed for "
      [] name = "search_recent_content" -> "Recent content search failed: "
      [] name = "search_by_example_text" -> "Example text search failed: "

\* C4 amended: a collaborator fault becomes a single response that opens
\* with the handler's own operation label (not with the dispatcher's
\* "Error in <tool name>"), carries the fault's message and ends with a
\* remediation hint; after it is delivered the server accepts the next call
\* and answers it normally.
C4_FaultBecomesResponse ==
    /\ CollaboratorRaised =>
           /\ ~response.raised
           /\ response.text[1] = FailureLabel(call.name)
           /\ response.text[1] # "Error in "
           /\ Len(response.text) \in {3, 5}
           /\ response.text[Len(response.text) - 1] = call.reply.msg
           /\ Len(collab) = 1
    /\ (prevFault /\ pc = "idle") => ENABLED handle_call_tool
    /\ (prevFault /\ Answered) =>
           /\ ~response.raised
           /\ (call.reply.kind = "ok" /\ call.name \in ListTools /\ Len(call.reply.results) > 0) =>
                  Contains(response.text, "Found ")

\* C4 witness: the call after a collaborator fault is served with a result listing.
C4_Witness ==
    /\ prevFault /\ Answered
    /\ call.name = "find_similar_pages"
    /\ call.reply.kind = "ok" /\ Len(call.reply.results) = 2
    /\ Cardinality(EntryStarts(response.text)) = 2

\* the collaborator answered the call held in `call` with an empty result list
EmptyResult == Answered /\ call.reply.kind = "ok" /\ Len(call.reply.results) = 0

\* C5 as stated: for each of the five tools an empty result list gives a
\* response without numbered entries that includes the query/URL/text verbatim.
C5_EmptyQuotesInput ==
    EmptyResult =>
        /\ ~response.raised
        /\ EntryStarts(response.text) = {}
        /\ Contains(response.text, Str(Subject(call.name, call.arguments)))

\* the sentence with which each handler opens its empty-result message
EmptyLead(name) ==
    CASE name = "search_web_semantic" -> "No results found for query: '"
      [] name = "extract_page_content" -> "Could not extract content from URL: "
      [] name = "find_similar_pages" -> "No similar pages found for: "
      [] name = "search_recent_content" -> "No recent content found for '"
      [] name = "search_by_example_text" ->
            "No similar content found for the provided text sample. Try a longer or more specific text example."

\* C5 amended: for each of the five tools an empty result list is a normal
\* outcome answered by the tool's explanatory sentence without numbered
\* entries; the sentence includes the query or URL verbatim for four tools,
\* while the example-text tool answers with one fixed sentence into which
\* the text is not interpolated.
C5_EmptyIsExplained ==
    EmptyResult =>
        /\ ~response.raised
        /\ EntryStarts(response.text) = {}
        /\ response.text[1] = EmptyLead(call.name)
        /\ (call.name # "search_by_example_text") =>
               response.text[2] = Str(Subject(call.name, call.arguments))
        /\ (call.name = "search_by_example_text") => Len(response.text) = 1

C5_Witness ==
    /\ EmptyResult
    /\ call.name = "search_by_example_text"
    /\ call.arguments["text"] = PyStr("Transformers use attention.")
    /\ Len(response.text) = 1

\* the collaborator answered a list tool's call with a non-empty result list
Listed ==
    /\ Answered /\ call.name \in ListTools
    /\ call.reply.kind = "ok" /\ Len(call.reply.results) >= 1

\* the position at which the k-th numbered entry of a text starts
EntryStart(text, k) ==
    CHOOSE p \in EntryStarts(text) :
        Cardinality({q \in EntryStarts(text) : q < p}) = k - 1

ScoreLabels == {"Relevance Score: ", "Similarity Score: "}

\* C6: a result list of length N >= 1 returned to a list tool gives exactly N
\* numbered entries, numbered 1..N in the order of the list; entry i shows
\* item i's title and URL (a placeholder when absent), its score, and a
\* publication-date line only when the date is present.
C6_EntriesFollowResults ==
    Listed =>
        LET text == response.text
            results == call.reply.results
            N == Len(results)
        IN  /\ ~response.raised
            /\ Cardinality(EntryStarts(text)) = N
            /\ Contains(text, ToString(N))
            /\ \A i \in 1..N :
                 LET p == EntryStart(text, i)
                     item == results[i]
                     dated == Len(text) >= p + 12 /\ text[p + 11] = "Published: "
                 IN  /\ text[p + 1] = ToString(i)
                     /\ text[p + 3] = (IF item.title = PyNone THEN "No title" ELSE item.title.s)
                     /\ text[p + 4] = "**\n"
                     /\ text[p + 5] = "URL: "
                     /\ text[p + 6] = (IF item.url = PyNone THEN "No URL" ELSE item.url.s)
                     /\ text[p + 8] \in ScoreLabels
                     /\ text[p + 9] = safe_format_score(item.score)
                     /\ dated => (item.published_date # PyNone /\ text[p + 12] = item.published_date.s)
                     /\ (item.published_date.t = "str" /\ item.published_date.s # "") => dated
                     /\ (i < N) => EntryStart(text, i + 1) = p + (IF dated THEN 15 ELSE 12)
                     /\ (i = N) => Len(text) = p + (IF dated THEN 14 ELSE 11)

\* C6 witness: a list of three results, the dated one last and an all-absent
\* one first, has been rendered by the recency tool.
C6_Witness ==
    /\ Listed
    /\ call.name = "search_recent_content"
    /\ Len(call.reply.results) = 3
    /\ call.reply.results[1].title = PyNone
    /\ call.reply.results[3].published_date = PyStr("2024-05-01")
    /\ response.text[Len(response.text) - 2] = "2024-05-01"

\* the collaborator answered extract_page_content with a non-empty text body
Extracted ==
    /\ Answered /\ call.name = "extract_page_content"
    /\ call.reply.kind = "ok" /\ Len(call.reply.results) >= 1
    /\ call.reply.results[1].text.t = "str" /\ call.reply.results[1].text.s # ""

TruncationMark == "*[Content truncated - total length: "

\* C7 as stated: a body of 3001 characters is cut to its first 3000 with a
\* marker citing 3001; a body of at most 3000 characters is returned
\* unmodified, without marker.
C7_TruncatesRawBody ==
    Extracted =>
        LET body == call.reply.results[1].text.s
            text == response.text
        IN  /\ (Len(body) = 3001) =>
                 /\ Contains(text, SubSeq(body, 1, 3000))
                 /\ Contains(text, TruncationMark) /\ Contains(text, "3001")
            /\ (Len(body) <= 3000) =>
                 /\ text[Len(text)] = body
                 /\ ~Contains(text, TruncationMark)

\* C7 amended: lengths are taken after leading and trailing whitespace is
\* stripped.  A body whose stripped length exceeds 3000 (3001 included) is cut
\* to the first 3000 characters of the stripped text, followed by "..." and a
\* marker citing the stripped length; a body whose stripped length is at most
\* 3000 (3000 included) is returned stripped and otherwise whole, without marker.
C7_TruncatesStrippedBody ==
    Extracted =>
        LET body == call.reply.results[1].text.s
            lead == CHOOSE k \in 0..Len(body) :
                        /\ \A j \in 1..k : SubSeq(body, j, j) \in Whitespace
                        /\ (k < Len(body) => SubSeq(body, k + 1, k + 1) \notin Whitespace)
            trail == CHOOSE k \in 0..(Len(body) - lead) :
                        /\ \A j \in (Len(body) - k + 1)..Len(body) : SubSeq(body, j, j) \in Whitespace
                        /\ (k < Len(body) - lead => SubSeq(body, Len(body) - k, Len(body) - k) \notin Whitespace)
            n == Len(body) - lead - trail
            text == response.text
            L == Len(text)
        IN  /\ ~response.raised
            /\ (n > 3000) =>
                 /\ text[L - 5] = "**Content (first 3000 characters):**\n"
                 /\ text[L - 4] = SubSeq(body, lead + 1, lead + 3000)
                 /\ text[L - 3] = "...\n\n"
                 /\ text[L - 2] = TruncationMark
                 /\ text[L - 1] = ToString(n)
            /\ (n <= 3000) =>
                 /\ text[L - 1] = "**Content:**\n"
                 /\ text[L] = SubSeq(body, lead + 1, lead + n)
                 /\ ~Contains(text, TruncationMark)
            /\ (body = Body(0, 3001, 0)) => (text[L - 1] = "3001" /\ Len(text[L - 4]) = 3000)
            /\ (body = Body(0, 3000, 0)) => text[L] = body

\* C7 witness: bodies of exactly 3001 and of exactly 3000 characters, without
\* surrounding whitespace, have been rendered.
C7_Witness ==
    /\ Extracted
    /\ call.reply.results[1].text.s = Body(0, 3001, 0)
    /\ Contains(response.text, "3001")

C7_WitnessWhole ==
    /\ Extracted
    /\ call.reply.results[1].text.s = Body(0, 3000, 0)
    /\ response.text[Len(response.text)] = Body(0, 3000, 0)

\* the recency tool's call reached the collaborator
RecentAsked ==
    /\ Answered /\ call.name = "search_recent_content" /\ Len(collab) = 1

\* C9: the start_published_date passed by the recency tool is the current
\* date minus days_back days, as a date without time of day; an omitted
\* days_back counts as 7 and an omitted num_results as 5 in every handler
\* that reads it, the defaults the catalog declares.
C9_StartDateAndDefaults ==
    /\ RecentAsked =>
         LET given == call.arguments["days_back"]
             days == IF given = Missing THEN 7 ELSE given.n
             today == [year |-> call.now.year, month |-> call.now.month, day |-> call.now.day]
             start == FromOrdinal(ToOrdinal(today) - days)
         IN  /\ collab[1].start_published_date = StrfDate(start)
             /\ Len(collab[1].start_published_date) = 10
             /\ (given = Missing) => days = Descriptor(call.name).defaults["days_back"]
             /\ (days = 30 /\ today = [year |-> 2026, month |-> 11, day |-> 4]) =>
                    collab[1].start_published_date = "2026-10-05"
             /\ (days = 7 /\ today = [year |-> 2025, month |-> 1, day |-> 3]) =>
                    collab[1].start_published_date = "2024-12-27"
             /\ (days = 1 /\ today = [year |-> 2024, month |-> 3, day |-> 1]) =>
                    collab[1].start_published_date = "2024-02-29"
    /\ (Answered /\ Len(collab) = 1 /\ "num_results" \in Descriptor(call.name).properties) =>
         /\ (call.arguments["num_results"] = Missing) =>
              /\ collab[1].num_results = PyInt(5)
              /\ collab[1].num_results = PyInt(Descriptor(call.name).defaults["num_results"])
         /\ (call.arguments["num_results"] # Missing) =>
              collab[1].num_results = call.arguments["num_results"]

\* C9 witness: a recency search without days_back and num_results has been
\* sent to the collaborator late on 2026-11-04.
C9_Witness ==
    /\ RecentAsked
    /\ call.arguments["days_back"] = Missing
    /\ call.arguments["num_results"] = Missing
    /\ call.now = [year |-> 2026, month |-> 11, day |-> 4, second |-> 86399]
    /\ collab[1].start_published_date = "2026-10-28"
    /\ collab[1].num_results = PyInt(5)

(***************************************************************************)
(* Score rendering: safe_format_score applied in each place that renders a *)
(* score, to one score at a time.                                          *)
(***************************************************************************)
\* lines 88-90 and 168-169 of test_connection.py: the printed result lines
tc_print_result(label, result) ==
    << label, tc_safe_get_attr(result.title, "No title"),
       "   Score: ", tc_safe_format_score(result.score) >>

\* floats that are not an exact tie between two thousandths, among them
\* 0.8234567, 0.9996 and -0.0004; integers; numeric and non-numeric strings; None
Scores ==
    { PyFloat(v) : v \in { k * 411113 : k \in 0..MaxScoreStep } \cup {8234567, 9996000, -4000, 123456000} }
    \cup { PyInt(k) : k \in {0, 1, 3} }
    \cup { PyStr(x) : x \in {"high", "0.5", "12", "", "n/a"} }
    \cup { PyNone }

\* the places that render a score: the four list handlers of the server and
\* the two result printouts of the connectivity check
ServerPlaces ==
    [p \in {"_search_web_semantic", "_search_recent_content"} |-> "Relevance Score: "]
    @@ [p \in {"_find_similar_pages", "_search_by_example_text"} |-> "Similarity Score: "]

ScriptPlaces ==
    [p \in {"test_exa_api_connection"} |-> "   Test result: "]
    @@ [p \in {"test_similarity_search"} |-> "   Found: "]

InitScore ==
    /\ credential = TRUE
    /\ pc = "idle"
    /\ call = NoCall
    /\ response = NoResponse
    /\ collab = << >>
    /\ prevFault = FALSE
    /\ boot = BootOff
    /\ memo = NoMemo
    /\ tc = TcIdle
    /\ \E score \in Scores :
         sc = [phase |-> "input", score |-> score, place |-> "", shown |-> ""]

\* a list handler renders the entry of a result carrying the score
RenderInServer ==
    /\ sc.phase = "input"
    /\ \E place \in DOMAIN ServerPlaces :
         LET entry == FormatEntry(1, Item(PyStr("Alpha"), PyNone, sc.score, PyNone, PyNone),
                                  ServerPlaces[place])
         IN  sc' = [sc EXCEPT !.phase = "rendered", !.place = place, !.shown = entry[10]]
    /\ UNCHANGED <<boot, memo, credential, pc, call, response, collab, prevFault, tc>>

\* the connectivity check prints a result carrying the score
RenderInScript ==
    /\ sc.phase = "input"
    /\ \E place \in DOMAIN ScriptPlaces :
         LET line == tc_print_result(ScriptPlaces[place],
                                     Item(PyStr("Alpha"), PyNone, sc.score, PyNone, PyNone))
         IN  sc' = [sc EXCEPT !.phase = "rendered", !.place = place, !.shown = line[4]]
    /\ UNCHANGED <<boot, memo, credential, pc, call, response, collab, prevFault, tc>>

NextScore == RenderInServer \/ RenderInScript

SpecScore == InitScore /\ [][NextScore]_vars

Digits == [c \in {"0", "1", "2", "3", "4", "5", "6", "7", "8", "9"} |->
              CASE c = "0" -> 0 [] c = "1" -> 1 [] c = "2" -> 2 [] c = "3" -> 3 [] c = "4" -> 4
                [] c = "5" -> 5 [] c = "6" -> 6 [] c = "7" -> 7 [] c = "8" -> 8 [] c = "9" -> 9]

IsDigits(str) == Len(str) >= 1 /\ \A i \in 1..Len(str) : SubSeq(str, i, i) \in DOMAIN Digits

RECURSIVE DigitsValue(_)
DigitsValue(str) ==
    IF Len(str) = 0 THEN 0
    ELSE 10 * DigitsValue(SubSeq(str, 1, Len(str) - 1)) + Digits[SubSeq(str, Len(str), Len(str))]

\* str is the three-decimal fixed notation of the value v (in units of 10^-7):
\* an optional sign, digits, a point and exactly three digits, naming the
\* thousandth nearest to v
IsFixed3Of(str, v) ==
    LET neg == Len(str) >= 1 /\ SubSeq(str, 1, 1) = "-"
        body == IF neg THEN SubSeq(str, 2, Len(str)) ELSE str
        whole == SubSeq(body, 1, Len(body) - 4)
        frac == SubSeq(body, Len(body) - 2, Len(body))
    IN  /\ Len(body) >= 5
        /\ SubSeq(body, Len(body) - 3, Len(body) - 3) = "."
        /\ IsDigits(whole) /\ IsDigits(frac)
        /\ neg = (v < 0)
        /\ LET m == DigitsValue(whole) * 1000 + DigitsValue(frac)
           IN  Abs(Abs(v) - m * 10000) <= 5000

\* C8: wherever a score is rendered (the four list handlers, the
\* connectivity check) an absent score gives "N/A", a value that converts to
\* a number gives three-decimal fixed notation (0.8234567 gives "0.823"),
\* and a present non-numeric value gives its string form unchanged.
C8_ScoreThreeWay ==
    (sc.phase = "rendered") =>
        /\ (sc.score = PyNone) => sc.shown = "N/A"
        /\ (sc.score.t = "float") => IsFixed3Of(sc.shown, sc.score.n)
        /\ (sc.score.t = "int") => IsFixed3Of(sc.shown, sc.score.n * 10000000)
        /\ (sc.score = PyStr("0.5")) => sc.shown = "0.500"
        /\ (sc.score = PyStr("12")) => sc.shown = "12.000"
        /\ (sc.score.t = "str" /\ sc.score.s \notin {"0.5", "12"}) => sc.shown = sc.score.s
        /\ (sc.score = PyFloat(8234567)) => sc.shown = "0.823"
        /\ (sc.score = PyStr("high")) => sc.shown = "high"
        /\ tc_safe_format_score(sc.score) = safe_format_score(sc.score)

\* C8 witness: the non-numeric score "high" has been rendered by the
\* connectivity check.
C8_Witness ==
    /\ sc.phase = "rendered"
    /\ sc.place = "test_similarity_search"
    /\ sc.score = PyStr("high")
    /\ sc.shown = "high"

C8_WitnessNumber ==
    /\ sc.phase = "rendered"
    /\ sc.place = "_search_by_example_text"
    /\ sc.score = PyFloat(8234567)
    /\ sc.shown = "0.823"

(***************************************************************************)
(* The connectivity check: run_all_tests of test_connection.py.            *)
(* A test function yields "True", "False" or "raised" (an exception left   *)
(* the function).                                                          *)
(***************************************************************************)
\* an import statement: the module loads, is not installed (ImportError),
\* or fails while loading with another exception
ImportOutcomes == {"ok", "ImportError", "OtherError"}

\* what a collaborator operation of the check does
ApiOutcomes == {"results", "empty", "raise"}

test_environment_setup(env) == IF env.api_key_set THEN "True" ELSE "False"

test_exa_import(env) ==
    CASE env.exa_py = "ok" -> "True"
      [] env.exa_py = "ImportError" -> "False"
      [] OTHER -> "raised"

test_mcp_import(env) ==
    CASE env.mcp = "ok" -> "True"
      [] env.mcp = "ImportError" -> "False"
      [] OTHER -> "raised"

\* the import and the construction of the client inside a test's try block
\* succeed: exa_py loads and Exa(api_key) is given a key
ClientReady(env) == env.exa_py = "ok" /\ env.api_key_set

test_exa_api_connection(env, api) ==
    IF ~ClientReady(env) THEN "False"
    ELSE IF api = << "results" >> THEN "True" ELSE "False"

\* every branch returns True: results, no results, and the except clause
test_content_extraction(env, api) ==
    IF ~ClientReady(env) THEN "True"
    ELSE IF api = << "results" >> THEN "True" ELSE "True"

test_similarity_search(env, api) ==
    IF ~ClientReady(env) THEN "True"
    ELSE IF api = << "results" >> THEN "True" ELSE "True"

test_additional_functionality(env, api) ==
    IF ~ClientReady(env) THEN "True"
    ELSE IF "raise" \in {api[i] : i \in DOMAIN api} THEN "True" ELSE "True"

\* the tests list of run_all_tests, in order
Tests ==
    << "Environment Setup", "Exa Library Import", "MCP Library Import", "Exa API Connection",
       "Content Extraction", "Similarity Search", "Additional Functionality" >>

\* the collaborator outcomes a test can meet: none when it performs no
\* operation, one per operation otherwise (the second date/neural probe of
\* the additional-functionality test runs only if the first did not raise)
ApiRuns(i, env) ==
    IF i <= 3 \/ ~ClientReady(env) THEN {<< >>}
    ELSE IF i <= 6 THEN { << a >> : a \in ApiOutcomes }
    ELSE { << "raise" >> } \cup { << a, b >> : a \in {"results", "empty"}, b \in ApiOutcomes }

RunTest(i, env, api) ==
    CASE i = 1 -> test_environment_setup(env)
      [] i = 2 -> test_exa_import(env)
      [] i = 3 -> test_mcp_import(env)
      [] i = 4 -> test_exa_api_connection(env, api)
      [] i = 5 -> test_content_extraction(env, api)
      [] i = 6 -> test_similarity_search(env, api)
      [] i = 7 -> test_additional_functionality(env, api)

CriticalTests == 4

IsCritical_FirstFive(i) == i - 1 <= CriticalTests

\* if i < critical_tests, for the zero-based index i - 1 of enumerate(tests)
IsCritical(i) == i - 1 < CriticalTests

\* sys.exit(0 if success else 1), success being critical_passed == critical_tests
ExitCode(t) == IF t.critical_passed = CriticalTests THEN 0 ELSE 1

InitConn ==
    /\ credential \in BOOLEAN
    /\ pc = "idle"
    /\ call = NoCall
    /\ response = NoResponse
    /\ collab = << >>
    /\ prevFault = FALSE
    /\ boot = BootOff
    /\ memo = NoMemo
    /\ sc = ScIdle
    /\ \E exa_py \in ImportOutcomes, mcp \in ImportOutcomes :
         tc = [phase |-> "running",
               env |-> [api_key_set |-> credential, exa_py |-> exa_py, mcp |-> mcp],
               log |-> << >>, passed |-> 0, critical_passed |-> 0, exit |-> -1]

\* one iteration of the for loop of run_all_tests: the next test is called
\* inside try/except and the counters are updated
run_next_test ==
    /\ tc.phase = "running"
    /\ Len(tc.log) < Len(Tests)
    /\ LET i == Len(tc.log) + 1
       IN  \E api \in ApiRuns(i, tc.env) :
             LET success == RunTest(i, tc.env, api)
             IN  tc' = [tc EXCEPT
                          !.log = Append(@, [test |-> Tests[i], api |-> api, result |-> success]),
                          !.passed = IF success = "True" THEN @ + 1 ELSE @,
                          !.critical_passed =
                              IF success = "True" /\ IsCritical(i) THEN @ + 1 ELSE @]
    /\ UNCHANGED <<boot, memo, credential, pc, call, response, collab, prevFault, sc>>

\* the loop is over: the summary is printed and the process exits
exit_process ==
    /\ tc.phase = "running"
    /\ Len(tc.log) = Len(Tests)
    /\ tc' = [tc EXCEPT !.phase = "exited", !.exit = ExitCode(tc)]
    /\ UNCHANGED <<boot, memo, credential, pc, call, response, collab, prevFault, sc>>

NextConn == run_next_test \/ exit_process

SpecConn == InitConn /\ [][NextConn]_vars

\* the outcome of the i-th check of a finished run
Outcome(i) == tc.log[i].result

\* C10: the connectivity check exits with 0 exactly when the four critical
\* checks (environment, exa-py import, mcp import, API connection) succeed,
\* and with a non-zero code otherwise; what the three non-critical checks
\* meet, a raised exception included, does not enter the exit code; every
\* check has been run when the process exits.
C10_ExitCodeIsCriticalOnly ==
    (tc.phase = "exited") =>
        /\ Len(tc.log) = 7
        /\ \A i \in 1..7 : tc.log[i].test = Tests[i]
        /\ (tc.exit = 0) <=> (\A i \in 1..4 : Outcome(i) = "True")
        /\ (tc.exit # 0) <=> (\E i \in 1..4 : Outcome(i) # "True")
        /\ (tc.exit = 0) <=>
               /\ tc.env.api_key_set /\ tc.env.exa_py = "ok" /\ tc.env.mcp = "ok"
               /\ tc.log[4].api = << "results" >>
        /\ tc.exit \in {0, 1}

\* C10 witness: the process exited with 0 although extraction and similarity
\* raised and the additional probes raised.
C10_Witness ==
    /\ tc.phase = "exited"
    /\ tc.exit = 0
    /\ tc.log[5].api = << "raise" >>
    /\ tc.log[6].api = << "raise" >>
    /\ tc.log[7].api = << "raise" >>

C10_WitnessFailure ==
    /\ tc.phase = "exited"
    /\ tc.exit = 1
    /\ Outcome(1) = "False"
    /\ Len(tc.log) = 7

(***************************************************************************)
(* Startup: main() checks the credential, then opens the stdio session     *)
(* and serves requests on it until the transport closes.                   *)
(***************************************************************************)
StartingLine == "Starting Exa AI MCP Server..."
ValidatedLine == "Exa API key validated successfully"

\* main() without the return of its except clause
Startup_NoReturn(api_key_set) ==
    LET exa == get_exa_client(api_key_set)
    IN  IF exa.raised /\ exa.exc \in ValueErrors
        THEN [phase |-> "validated", line |-> "Startup failed: " \o exa.msg]
        ELSE [phase |-> "validated", line |-> ValidatedLine]

\* the try statement of main(): where main() goes next and the line it logs
Startup(api_key_set) ==
    LET exa == get_exa_client(api_key_set)
    IN  IF exa.raised /\ exa.exc \in ValueErrors
        THEN [phase |-> "returned", line |-> "Startup failed: " \o exa.msg]
        ELSE IF exa.raised
        THEN [phase |-> "crashed", line |-> exa.msg]
        ELSE [phase |-> "validated", line |-> ValidatedLine]

InitMain ==
    /\ credential \in BOOLEAN
    /\ boot = [phase |-> "new", log |-> << >>]
    /\ pc = "closed"
    /\ call = NoCall
    /\ response = NoResponse
    /\ collab = << >>
    /\ prevFault = FALSE
    /\ memo = NoMemo
    /\ tc = TcIdle
    /\ sc = ScIdle

\* main() is entered and logs its first line
main_start ==
    /\ boot.phase = "new"
    /\ boot' = [phase |-> "starting", log |-> Append(boot.log, StartingLine)]
    /\ UNCHANGED <<memo, credential, pc, call, response, collab, prevFault, tc, sc>>

\* main() resolves the client once and logs the outcome
main_validate ==
    /\ boot.phase = "starting"
    /\ LET s == Startup(credential)
       IN  boot' = [phase |-> s.phase, log |-> Append(boot.log, s.line)]
    /\ UNCHANGED <<memo, credential, pc, call, response, collab, prevFault, tc, sc>>

\* main() enters stdio_server() and app.run(): requests are served from now on
main_open_session ==
    /\ boot.phase = "validated"
    /\ boot' = [boot EXCEPT !.phase = "serving"]
    /\ pc' = "idle"
    /\ UNCHANGED <<memo, credential, call, response, collab, prevFault, tc, sc>>

\* the transport closes between two requests: app.run() and main() return
main_close_session ==
    /\ boot.phase = "serving"
    /\ pc = "idle"
    /\ boot' = [boot EXCEPT !.phase = "closed"]
    /\ pc' = "closed"
    /\ UNCHANGED <<memo, credential, call, response, collab, prevFault, tc, sc>>

NextMain ==
    \/ main_start
    \/ main_validate
    \/ main_open_session
    \/ main_close_session
    \/ handle_call_tool
    \/ handle_list_tools
    \/ SendResponse

SpecMain == InitMain /\ [][NextMain]_vars

SessionOpened == boot.phase \in {"serving", "closed"}

\* C11: main() checks the credential before it opens the transport session.
\* A session is open, or a request is being served, only after the check
\* succeeded: the credential is present, the success line is logged and no
\* failure line is.  Without the credential no session is ever open: once
\* the check has run, main() has returned and its last log line is
\* "Startup failed: " followed by the remediation message.
C11_CheckBeforeSession ==
    /\ pc # "closed" => boot.phase = "serving"
    /\ SessionOpened =>
          /\ credential
          /\ boot.log = << StartingLine, ValidatedLine >>
    /\ ~credential =>
          /\ pc = "closed"
          /\ boot.phase \in {"new", "starting", "returned"}
          /\ boot.phase = "returned" =>
                boot.log = << StartingLine, "Startup failed: " \o RemediationText >>

\* main() has returned without a session, the remediation message logged
C11_Witness ==
    /\ ~credential
    /\ boot.phase = "returned"
    /\ pc = "closed"
    /\ Len(boot.log) = 2

\* a request is answered on a session opened after a successful check
C11_WitnessSession ==
    /\ boot.phase = "serving"
    /\ Answered
    /\ Len(collab) = 1

(***************************************************************************)
(* The catalog and the dispatcher.                                         *)
(***************************************************************************)
\* the names of a listing, in its order
NamesOf(tools) == [i \in DOMAIN tools |-> tools[i].name]

\* the tool whose handler issues a collaborator operation of this shape
HandlerOf(op) ==
    CASE op.op = "get_contents" -> "extract_page_content"
      [] op.op = "find_similar" -> "find_similar_pages"
      [] op.op = "search" /\ op.type = "neural" -> "search_by_example_text"
      [] op.op = "search" /\ op.start_published_date # "" -> "search_recent_content"
      [] OTHER -> "search_web_semantic"

\* C12: the names listTools advertises and the names the dispatcher routes
\* to a handler are the same five.  Every listing, whatever calls were
\* served before it, is the same five descriptors in the same order, with
\* five distinct names; with the credential present a call is answered
\* "Unknown tool" exactly when its name is not advertised, and a call that
\* reaches the collaborator does so through the handler of its own name,
\* no two names sharing a handler.
C12_CatalogMatchesDispatch ==
    /\ pc = "responded" /\ response.kind = "tools" =>
          /\ NamesOf(response.tools) =
                << "search_web_semantic", "extract_page_content", "find_similar_pages",
                   "search_recent_content", "search_by_example_text" >>
          /\ response.tools = Catalog
          /\ Cardinality({response.tools[i].name : i \in DOMAIN response.tools}) = 5
    /\ Answered /\ credential =>
          /\ (response.text[1] = "Unknown tool: ") <=> (call.name \notin CatalogNames)
          /\ collab # << >> => HandlerOf(collab[1]) = call.name

\* the last advertised tool is called after a failed call and reaches the
\* collaborator through its own handler
C12_Witness ==
    /\ Answered
    /\ credential
    /\ prevFault
    /\ call.name = "search_by_example_text"
    /\ Len(collab) = 1
    /\ HandlerOf(collab[1]) = "search_by_example_text"

\* a listing is returned after a failed call
C12_WitnessListing ==
    /\ pc = "responded"
    /\ response.kind = "tools"
    /\ prevFault

(***************************************************************************)
(* Collaborator operations per call.                                       *)
(***************************************************************************)
\* the key the called tool requires is among the arguments
RequiredPresent ==
    /\ call.name \in CatalogNames
    /\ \A k \in Descriptor(call.name).required : call.arguments[k].t # "missing"

\* what the handler computes before its collaborator call succeeds: len(text)
\* of the example text, the start date from days_back
Prepared ==
    /\ call.name = "search_by_example_text" => call.arguments["text"].t = "str"
    /\ call.name = "search_recent_content" => call.arguments["days_back"].t \in {"missing", "int"}

\* C13 as stated: a call performs at most one collaborator operation,
\* exactly one when the credential is present, the name is in the catalog
\* and the required argument is present, and none otherwise.
C13_OneOpWhenRequiredPresent ==
    Answered =>
        /\ Len(collab) <= 1
        /\ (Len(collab) = 1) <=> (credential /\ RequiredPresent)

\* C13 amended: a call performs at most one collaborator operation: exactly
\* one when the credential is present, the name is in the catalog, the
\* required argument is present and what the handler computes before its
\* collaborator call succeeds (the example text has a length, the start date
\* can be computed from days_back), and none otherwise.  A collaborator call
\* that raises is not repeated and is answered by one response, opening
\* with the handler's failure label and carrying the fault's message once.
C13_OneOpWhenPrepared ==
    /\ Answered =>
          /\ Len(collab) <= 1
          /\ (Len(collab) = 1) <=> (credential /\ RequiredPresent /\ Prepared)
    /\ CollaboratorRaised =>
          /\ Len(collab) = 1
          /\ ~response.raised
          /\ response.text[1] = FailureLabel(call.name)
          /\ Cardinality({i \in DOMAIN response.text : response.text[i] = call.reply.msg}) = 1

\* a search whose collaborator call raised: one operation, one failure response
C13_Witness ==
    /\ CollaboratorRaised
    /\ call.name = "search_web_semantic"
    /\ Len(collab) = 1
    /\ response.text[1] = "Web search failed: "

\* the required argument is present and the credential set, yet no
\* operation is performed: days_back is not a number
C13_WitnessUnprepared ==
    /\ Answered
    /\ credential
    /\ RequiredPresent
    /\ call.name = "search_recent_content"
    /\ call.arguments["days_back"].t = "str"
    /\ collab = << >>

(***************************************************************************)
(* Calls in sequence: one delivered call is kept with its response and     *)
(* compared with a later call of the same inputs.  The inputs are a        *)
(* sample of those of the server specification.                            *)
(***************************************************************************)
serve_sample_call == ServeCall(TRUE)

\* the transport sends the result of a call, which is kept for comparison
SendAndKeep ==
    /\ pc = "responded"
    /\ response.kind = "text"
    /\ ~memo.set
    /\ memo' = [set |-> TRUE, call |-> call, response |-> response, collab |-> collab,
                between |-> "none"]
    /\ pc' = "idle"
    /\ prevFault' = (call.reply.kind = "raise")
    /\ call' = NoCall
    /\ response' = NoResponse
    /\ collab' = << >>
    /\ UNCHANGED <<boot, credential, tc, sc>>

NextSequence ==
    \/ serve_sample_call
    \/ handle_list_tools
    \/ SendResponse
    \/ SendAndKeep

SpecSequence == InitServer /\ [][NextSequence]_vars

\* the call being answered has the inputs of the kept call
SameInputs == Answered /\ memo.set /\ call = memo.call

C14_WitnessAfterUnknown ==
    /\ SameInputs
    /\ credential
    /\ memo.between = "unknown"
    /\ call.reply.kind = "raise"
    /\ response = memo.response

(***************************************************************************)
(* The configuration-error tag.                                            *)
(***************************************************************************)
ConfigTag == "Configuration Error: "

\* a fault arises inside the handler of the called tool: the required key
\* is missing, an argument is wrongly typed (which also fails the date
\* computation), or the collaborator call fails
HandlerFault ==
    /\ call.name \in CatalogNames
    /\ \/ ~RequiredPresent
       \/ ~Prepared
       \/ call.reply.kind \in {"raise", "malformed"}

\* C15: a response opens with "Configuration Error: " only when the
\* credential is absent at that call, and is then exactly the tag followed
\* by the remediation message, no collaborator operation performed.  With
\* the credential present a fault inside a handler is reported under the
\* dispatcher's "Error in " tag or under the handler's own failure label,
\* never under the configuration-error tag.
C15_ConfigTagOnlyWithoutCredential ==
    /\ Answered /\ Contains(response.text, ConfigTag) =>
          /\ ~credential
          /\ response.text = << ConfigTag, RemediationText >>
          /\ collab = << >>
    /\ Answered /\ credential /\ HandlerFault =>
          /\ ~response.raised
          /\ response.text[1] \in {"Error in ", FailureLabel(call.name)}
          /\ response.text[1] # ConfigTag

\* the date computation fails with the credential present: the handler's
\* own failure label is used
C15_Witness ==
    /\ Answered
    /\ credential
    /\ call.name = "search_recent_content"
    /\ call.arguments["days_back"].t = "str"
    /\ response.text[1] = "Recent content search failed: "

\* a required key is missing with the credential present: "Error in"
C15_WitnessMissingKey ==
    /\ Answered
    /\ credential
    /\ call.name \in CatalogNames
    /\ ~RequiredPresent
    /\ response.text[1] = "Error in "

\* the credential is absent: the configuration-error tag
C15_WitnessConfig ==
    /\ Answered
    /\ ~credential
    /\ call.name \in CatalogNames
    /\ response.text[1] = ConfigTag

====
